---- MODULE Spec2Model ----
(***************************************************************************)
(* Model of the product-tracking canister in                               *)
(* src/src/icp_rust_boilerplate_backend/src/lib.rs: the durable id counter *)
(* (ID_COUNTER), the durable id -> Product map (PRODUCT_STORAGE) and the   *)
(* four entry points get_product, add_product, update_product and          *)
(* delete_product.  Calls run one at a time to completion.  A panic inside *)
(* a call is a canister trap: the host discards every state change the     *)
(* call made and the caller sees a reject.                                 *)
(***************************************************************************)
EXTENDS Integers, Sequences, FiniteSets, TLC

----------------------------------------------------------------------------
(* Bounds of the model *)

\* number of successful add_product calls explored
MaxCreates == 2
\* largest reading of the host clock explored
MaxTime == 1
\* length in bytes of the long text used to approach MAX_SIZE
LongLen == 1000
\* width of the id counter in the model; the program's u64 has 64 bits,
\* the model keeps the wrap-around at 2^U64Bits
U64Bits == 16

----------------------------------------------------------------------------
(* Program constants *)

\* impl BoundedStorable for Product
MAX_SIZE == 2048
\* u64::MAX at the model's width
U64_MAX == 2^U64Bits - 1
\* bytes that candid::Encode! emits ahead of the field values of a Product:
\* "DIDL", the type table (a 9-field record, opt text, opt nat64) and the
\* argument list
CANDID_HEADER == 64

\* an id in the middle of the range, which no call of the model creates
MissingId == U64_MAX \div 2

----------------------------------------------------------------------------
(* Text and optional values *)

\* Option<T>: None is the empty sequence, Some(v) a one-element sequence
None == <<>>
Some(v) == <<v>>
IsSome(o) == Len(o) = 1
Unwrap(o) == o[1]

\* a String is the sequence of its runs: a run is a character and the
\* number of times it repeats (at least once); adjacent runs differ in
\* their character.  Every character used here takes one byte in UTF-8.
Run(c, n) == [char |-> c, count |-> n]
Str(c, n) == <<Run(c, n)>>

IsWhitespace(c) == c \in {" ", "\t", "\n"}

RECURSIVE TrimStart(_)
TrimStart(s) ==
    IF s # <<>> /\ IsWhitespace(Head(s).char) THEN TrimStart(Tail(s)) ELSE s

RECURSIVE TrimEnd(_)
TrimEnd(s) ==
    IF s # <<>> /\ IsWhitespace(s[Len(s)].char)
    THEN TrimEnd(SubSeq(s, 1, Len(s) - 1))
    ELSE s

\* str::trim
Trim(s) == TrimEnd(TrimStart(s))

RECURSIVE ByteLen(_)
\* str::len
ByteLen(s) == IF s = <<>> THEN 0 ELSE Head(s).count + ByteLen(Tail(s))

\* str::is_empty
IsEmpty(s) == ByteLen(s) = 0

----------------------------------------------------------------------------
(* Payloads offered to add_product and update_product *)

S_a == Str("a", 1)
S_b == <<Run(" ", 1), Run("b", 2), Run(" ", 1)>>
S_empty == <<>>
S_spaces == <<Run(" ", 1), Run("\t", 1), Run(" ", 2)>>
S_long == Str("x", LongLen)

Payload(n, o, l, s, c, d) ==
    [name |-> n, origin |-> o, current_location |-> l, status |-> s,
     certification |-> c, iot_data |-> d]

P_plain == Payload(S_b, S_a, S_a, S_a, Some(S_empty), None)
P_longName == Payload(S_long, S_a, S_a, S_b, None, Some(S_a))
P_tooBig == Payload(S_long, S_b, S_long, S_a, None, Some(S_spaces))
P_noName == Payload(S_spaces, S_a, S_a, S_a, None, None)
P_noOrigin == Payload(S_a, S_empty, S_b, S_a, Some(S_a), None)
P_noLocation == Payload(S_a, S_a, S_spaces, S_a, None, None)
P_noStatus == Payload(S_a, S_a, S_a, S_empty, None, Some(S_a))

\* the payloads with a blank required field
BlankPayloads == {P_noName, P_noOrigin, P_noLocation, P_noStatus}

\* payloads offered to add_product
Payloads == {P_plain, P_longName, P_tooBig} \cup BlankPayloads

\* payloads offered to update_product
UpdatePayloads == {P_plain, P_tooBig, P_noName, P_noStatus}

----------------------------------------------------------------------------
(* Validation *)

\* enum Error: the variant; the msg text is left out
InvalidInput == [kind |-> "InvalidInput", id |-> None]

\* validate_product_payload with is_empty() applied to the untrimmed text
validate_without_trim(payload) ==
    IF IsEmpty(payload.name)
    THEN Some(InvalidInput)
    ELSE IF IsEmpty(payload.origin)
    THEN Some(InvalidInput)
    ELSE IF IsEmpty(payload.current_location)
    THEN Some(InvalidInput)
    ELSE IF IsEmpty(payload.status)
    THEN Some(InvalidInput)
    ELSE None

\* a validation that also refuses a blank certification or iot_data
validate_optional_too(payload) ==
    IF IsEmpty(Trim(payload.name))
    THEN Some(InvalidInput)
    ELSE IF IsEmpty(Trim(payload.origin))
    THEN Some(InvalidInput)
    ELSE IF IsEmpty(Trim(payload.current_location))
    THEN Some(InvalidInput)
    ELSE IF IsEmpty(Trim(payload.status))
    THEN Some(InvalidInput)
    ELSE IF IsSome(payload.certification) /\ IsEmpty(Trim(Unwrap(payload.certification)))
    THEN Some(InvalidInput)
    ELSE IF IsSome(payload.iot_data) /\ IsEmpty(Trim(Unwrap(payload.iot_data)))
    THEN Some(InvalidInput)
    ELSE None

\* fn validate_product_payload: None stands for Ok(()), Some(e) for Err(e)
validate_product_payload(payload) ==
    IF IsEmpty(Trim(payload.name))
    THEN Some(InvalidInput)
    ELSE IF IsEmpty(Trim(payload.origin))
    THEN Some(InvalidInput)
    ELSE IF IsEmpty(Trim(payload.current_location))
    THEN Some(InvalidInput)
    ELSE IF IsEmpty(Trim(payload.status))
    THEN Some(InvalidInput)
    ELSE None

\* validate_product_payload applied to each payload of the model, worked
\* out once: the outcome depends on the payload alone
Validated == [p \in Payloads |-> validate_product_payload(p)]

----------------------------------------------------------------------------
(* Record codec: the length of Encode!(product) *)

RECURSIVE Leb128Len(_)
Leb128Len(n) == IF n < 128 THEN 1 ELSE 1 + Leb128Len(n \div 128)

\* text: LEB128 length prefix, then the bytes
TextSize(s) == Leb128Len(ByteLen(s)) + ByteLen(s)
\* opt text: a presence byte, then the text when present
OptTextSize(o) == 1 + (IF IsSome(o) THEN TextSize(Unwrap(o)) ELSE 0)
\* opt nat64: a presence byte, then 8 bytes when present
OptNat64Size(o) == 1 + (IF IsSome(o) THEN 8 ELSE 0)

\* Storable::to_bytes(product).len()
EncodedSize(product) ==
    CANDID_HEADER + 8 + TextSize(product.name) + TextSize(product.origin)
    + TextSize(product.current_location) + TextSize(product.status)
    + OptTextSize(product.certification) + 8
    + OptNat64Size(product.last_update) + OptTextSize(product.iot_data)

----------------------------------------------------------------------------
(* Record codec: the bytes of Encode!(product) and Decode!(bytes, Product) *)

\* the characters used here and their UTF-8 bytes
Alphabet == {" ", "\t", "\n", "a", "b", "x"}
ByteOf(c) ==
    CASE c = " " -> 32 [] c = "\t" -> 9 [] c = "\n" -> 10
      [] c = "a" -> 97 [] c = "b" -> 98 [] c = "x" -> 120
CharOf(b) == CHOOSE c \in Alphabet : ByteOf(c) = b

\* "DIDL", a type table of three entries (the record with its nine fields
\* in the order of their hashed names, opt text, opt nat64), one argument
\* of type 0
CandidHeader ==
    <<68, 73, 68, 76, 3,
      108, 9,
      219, 183, 1, 120,
      178, 206, 239, 47, 113,
      203, 228, 253, 199, 4, 113,
      230, 179, 132, 216, 4, 113,
      187, 244, 231, 241, 7, 113,
      250, 205, 239, 194, 8, 1,
      214, 169, 187, 174, 10, 120,
      251, 178, 230, 162, 13, 1,
      146, 200, 220, 230, 13, 2,
      110, 113,
      110, 120,
      1, 0>>

\* the fields of Product in the order of the wire, with their types
WireFields ==
    <<[name |-> "id", type |-> "nat64"],
      [name |-> "status", type |-> "text"],
      [name |-> "name", type |-> "text"],
      [name |-> "origin", type |-> "text"],
      [name |-> "current_location", type |-> "text"],
      [name |-> "certification", type |-> "opt text"],
      [name |-> "timestamp", type |-> "nat64"],
      [name |-> "iot_data", type |-> "opt text"],
      [name |-> "last_update", type |-> "opt nat64"]>>

RECURSIVE WriteLeb128(_)
WriteLeb128(n) ==
    IF n < 128 THEN <<n>> ELSE <<128 + (n % 128)>> \o WriteLeb128(n \div 128)

RECURSIVE WriteLittleEndian(_, _)
WriteLittleEndian(n, bytes) ==
    IF bytes = 0 THEN <<>>
    ELSE <<n % 256>> \o WriteLittleEndian(n \div 256, bytes - 1)

\* nat64: eight bytes, least significant first
WriteNat64(n) == WriteLittleEndian(n, 8)

RECURSIVE WriteChars(_)
WriteChars(s) ==
    IF s = <<>> THEN <<>>
    ELSE [i \in 1..Head(s).count |-> ByteOf(Head(s).char)] \o WriteChars(Tail(s))

\* text: LEB128 length prefix, then the bytes
WriteText(s) == WriteLeb128(ByteLen(s)) \o WriteChars(s)

\* a value of the given wire type; opt: a presence byte, then the value
WriteValue(type, v) ==
    CASE type = "nat64" -> WriteNat64(v)
      [] type = "text" -> WriteText(v)
      [] type = "opt text" -> IF IsSome(v) THEN <<1>> \o WriteText(Unwrap(v)) ELSE <<0>>
      [] type = "opt nat64" -> IF IsSome(v) THEN <<1>> \o WriteNat64(Unwrap(v)) ELSE <<0>>

RECURSIVE WriteFields(_, _)
WriteFields(product, fields) ==
    IF fields = <<>> THEN <<>>
    ELSE WriteValue(Head(fields).type, product[Head(fields).name])
         \o WriteFields(product, Tail(fields))

\* Storable::to_bytes
to_bytes(product) == CandidHeader \o WriteFields(product, WireFields)

\* what a reader answers: the value read and the position after it, or
\* None when the bytes do not hold such a value
Parsed(val, next) == Some([val |-> val, next |-> next])

\* a length read from one byte only
ReadLeb128_OneByte(bytes, pos) ==
    IF pos > Len(bytes) THEN None ELSE Parsed(bytes[pos] % 128, pos + 1)

RECURSIVE ReadLeb128(_, _)
\* a length above the number of bytes at hand is refused
ReadLeb128(bytes, pos) ==
    IF pos > Len(bytes) THEN None
    ELSE IF bytes[pos] < 128 THEN Parsed(bytes[pos], pos + 1)
    ELSE LET high == ReadLeb128(bytes, pos + 1) IN
         IF ~IsSome(high) \/ Unwrap(high).val > Len(bytes) THEN None
         ELSE Parsed((bytes[pos] - 128) + 128 * Unwrap(high).val,
                     Unwrap(high).next)

RECURSIVE ReadLittleEndian(_, _, _)
\* the number held by `count` bytes from pos on, least significant first;
\* a number above U64_MAX is refused
ReadLittleEndian(bytes, pos, count) ==
    IF count = 0 THEN Some(0)
    ELSE LET high == ReadLittleEndian(bytes, pos + 1, count - 1) IN
         IF ~IsSome(high) \/ Unwrap(high) * 256 + bytes[pos] > U64_MAX
         THEN None
         ELSE Some(Unwrap(high) * 256 + bytes[pos])

ReadNat64(bytes, pos) ==
    IF pos + 7 > Len(bytes) THEN None
    ELSE LET n == ReadLittleEndian(bytes, pos, 8) IN
         IF IsSome(n) THEN Parsed(Unwrap(n), pos + 8) ELSE None

Min(S) == CHOOSE x \in S : \A y \in S : x <= y

RECURSIVE ReadRuns(_, _, _)
\* the runs that begin at the positions `starts` and end at `last`
ReadRuns(bytes, starts, last) ==
    IF starts = {} THEN <<>>
    ELSE LET first == Min(starts)
             next == Min((starts \ {first}) \cup {last + 1})
         IN <<Run(CharOf(bytes[first]), next - first)>>
            \o ReadRuns(bytes, starts \ {first}, last)

\* the String held by bytes[first..last]
ReadChars(bytes, first, last) ==
    ReadRuns(bytes,
             {i \in first..last : i = first \/ bytes[i] # bytes[i - 1]},
             last)

ReadText(bytes, pos) ==
    LET len == ReadLeb128(bytes, pos) IN
    IF ~IsSome(len) THEN None
    ELSE LET first == Unwrap(len).next
             last == first + Unwrap(len).val - 1
         IN
         IF last > Len(bytes) THEN None
         ELSE IF \E i \in first..last : \A c \in Alphabet : bytes[i] # ByteOf(c)
         THEN None
         ELSE Parsed(ReadChars(bytes, first, last), last + 1)

\* opt: presence byte 0 is None, 1 is Some of the value that follows;
\* inner is what reading that value from pos + 1 answers
ReadOpt(bytes, pos, inner) ==
    IF pos > Len(bytes) THEN None
    ELSE IF bytes[pos] = 0 THEN Parsed(None, pos + 1)
    ELSE IF bytes[pos] # 1 THEN None
    ELSE IF ~IsSome(inner) THEN None
    ELSE Parsed(Some(Unwrap(inner).val), Unwrap(inner).next)

ReadValue(type, bytes, pos) ==
    CASE type = "nat64" -> ReadNat64(bytes, pos)
      [] type = "text" -> ReadText(bytes, pos)
      [] type = "opt text" -> ReadOpt(bytes, pos, ReadText(bytes, pos + 1))
      [] type = "opt nat64" -> ReadOpt(bytes, pos, ReadNat64(bytes, pos + 1))

RECURSIVE ReadFields(_, _, _, _)
\* the fields still to read, added to those read so far; bytes left over
\* after the last field are refused
ReadFields(bytes, pos, fields, product) ==
    IF fields = <<>>
    THEN IF pos = Len(bytes) + 1 THEN Some(product) ELSE None
    ELSE LET field == ReadValue(Head(fields).type, bytes, pos) IN
         IF ~IsSome(field) THEN None
         ELSE ReadFields(bytes, Unwrap(field).next, Tail(fields),
                         (Head(fields).name :> Unwrap(field).val) @@ product)

\* Storable::from_bytes before its unwrap: None stands for the Err that
\* makes unwrap panic
from_bytes(bytes) ==
    IF Len(bytes) < Len(CandidHeader) THEN None
    ELSE IF SubSeq(bytes, 1, Len(CandidHeader)) # CandidHeader THEN None
    ELSE ReadFields(bytes, Len(CandidHeader) + 1, WireFields, <<>>)

----------------------------------------------------------------------------
(* Record store: StableBTreeMap<u64, Product>, a function on the stored ids *)

\* a lookup that falls back to Product::default() for an absent id
StorageGet_OrDefault(st, id) ==
    IF id \in DOMAIN st THEN Some(st[id])
    ELSE Some([id |-> 0, name |-> <<>>, origin |-> <<>>,
               current_location |-> <<>>, status |-> <<>>,
               certification |-> None, timestamp |-> 0,
               last_update |-> None, iot_data |-> None])

\* StableBTreeMap::get
StorageGet(st, id) == IF id \in DOMAIN st THEN Some(st[id]) ELSE None

\* fn _get_product
_get_product(st, id) == StorageGet(st, id)

\* StableBTreeMap::insert panics when the value's bytes exceed MAX_SIZE
InsertPanics(product) == EncodedSize(product) > MAX_SIZE

\* an insert that rebuilds the map from the one product
do_insert_alone(st, product) == [k \in {product.id} |-> product]

\* an insert that files the product under the next free key
do_insert_next_key(st, product) ==
    [k \in DOMAIN st \cup {product.id + 1} |->
        IF k = product.id + 1 THEN product ELSE st[k]]

\* fn do_insert: insert or overwrite the entry at product.id
do_insert(st, product) ==
    [k \in DOMAIN st \cup {product.id} |->
        IF k = product.id THEN product ELSE st[k]]

\* a removal that reads the entry and leaves it in place
StorageRemove_Keep(st, id) == st

\* a removal that empties the map
StorageRemove_Clear(st, id) == [k \in {} |-> st[k]]

\* StableBTreeMap::remove: the map without the entry at id
StorageRemove(st, id) == [k \in DOMAIN st \ {id} |-> st[k]]

----------------------------------------------------------------------------
(* Building and changing a Product *)

\* a counter written back without the increment
WrappingIncrement_Same(current_value) == current_value

\* a counter that skips a value
WrappingIncrement_Twice(current_value) == (current_value + 2) % (U64_MAX + 1)

\* current_value + 1 on a u64 without overflow checks
WrappingIncrement(current_value) == (current_value + 1) % (U64_MAX + 1)

\* a Product literal that stamps last_update at creation
NewProduct_Stamped(id, payload, t) ==
    [id |-> id,
     name |-> payload.name,
     origin |-> payload.origin,
     current_location |-> payload.current_location,
     status |-> payload.status,
     certification |-> payload.certification,
     timestamp |-> t,
     last_update |-> Some(t),
     iot_data |-> payload.iot_data]

\* a Product literal that takes Default for the optional texts
NewProduct_NoOptional(id, payload, t) ==
    [id |-> id,
     name |-> payload.name,
     origin |-> payload.origin,
     current_location |-> payload.current_location,
     status |-> payload.status,
     certification |-> None,
     timestamp |-> t,
     last_update |-> None,
     iot_data |-> None]

\* the Product literal of add_product
NewProduct(id, payload, t) ==
    [id |-> id,
     name |-> payload.name,
     origin |-> payload.origin,
     current_location |-> payload.current_location,
     status |-> payload.status,
     certification |-> payload.certification,
     timestamp |-> t,
     last_update |-> None,
     iot_data |-> payload.iot_data]

\* update_product assigning every payload field, name and origin included
UpdatedProduct_AllFields(product, payload, t) ==
    [product EXCEPT
        !.name = payload.name,
        !.origin = payload.origin,
        !.current_location = payload.current_location,
        !.status = payload.status,
        !.certification = payload.certification,
        !.iot_data = payload.iot_data,
        !.last_update = Some(t)]

\* update_product with the two time fields exchanged: the reading goes to
\* timestamp and the creation time to last_update
UpdatedProduct_StampsSwapped(product, payload, t) ==
    [product EXCEPT
        !.current_location = payload.current_location,
        !.status = payload.status,
        !.certification = payload.certification,
        !.iot_data = payload.iot_data,
        !.timestamp = t,
        !.last_update = Some(product.timestamp)]

\* the field assignments of update_product
UpdatedProduct(product, payload, t) ==
    [product EXCEPT
        !.current_location = payload.current_location,
        !.status = payload.status,
        !.certification = payload.certification,
        !.iot_data = payload.iot_data,
        !.last_update = Some(t)]

----------------------------------------------------------------------------
(* State *)

VARIABLES
    counter,     \* ID_COUNTER: the next id to hand out
    storage,     \* PRODUCT_STORAGE: stored id -> Product
    now,         \* the host clock read by time()
    result,      \* the last call: entry point, id argument, what it returned
    issued,      \* history: ids returned by successful add_product calls
    deleted,     \* history: ids removed by a successful delete_product
    birth,       \* history: id -> Product returned by add_product, kept
                 \*   while the id stays stored
    untouched,   \* history: the stored ids that no update has changed
    input,       \* the value handed to a function applied on its own
    output       \* what that function returned, once it has run

vars ==
    <<counter, storage, now, result, issued, deleted, birth, untouched,
      input, output>>

\* the variables of a function applied on its own
pure == <<input, output>>

EmptyMap == [k \in {} |-> None]

\* history bookkeeping: remember the Product a call returned, forget an id
Remember(h, product) ==
    [k \in DOMAIN h \cup {product.id} |->
        IF k = product.id THEN product ELSE h[k]]
Forget(h, id) == [k \in DOMAIN h \ {id} |-> h[k]]

Range(f) == {f[i] : i \in DOMAIN f}

\* call results
\* what a call returned: the variant, the Product of an Ok and the id that
\* the msg of a NotFound names
Ok(p) == [kind |-> "Ok", product |-> Some(p), id |-> None]
Err(e) == [kind |-> e.kind, product |-> None, id |-> e.id]
NotFound(id) == [kind |-> "NotFound", id |-> Some(id)]
\* a panic: the call traps and the host rolls its state changes back
Trap == [kind |-> "Trap", product |-> None, id |-> None]

\* the last call: its entry point and what it returned
Call(op, ret) == [op |-> op, ret |-> ret]

\* time()
time == now

\* ids offered to get_product, update_product and delete_product
IdInputs == Range(issued) \cup {MissingId}

NoCall == Call("init", [kind |-> "Init", product |-> None, id |-> None])

InitHistory ==
    /\ result = NoCall
    /\ issued = <<>>
    /\ deleted = {}
    /\ birth = EmptyMap
    /\ untouched = {}

\* no function is applied on its own
NoPure ==
    /\ input = None
    /\ output = None

\* a fresh canister: IdCell::init(.., 0), an empty map
Init ==
    /\ counter = 0
    /\ storage = EmptyMap
    /\ now = 0
    /\ InitHistory
    /\ NoPure

\* a canister whose counter has nearly run through its range
InitEnd ==
    /\ counter = U64_MAX - 1
    /\ storage = EmptyMap
    /\ now = 0
    /\ InitHistory
    /\ NoPure

----------------------------------------------------------------------------
(* Operations *)

\* the host clock moves forward between calls
Tick ==
    /\ now < MaxTime
    /\ now' = now + 1
    /\ UNCHANGED <<counter, storage, result, issued, deleted, birth, untouched>>
    /\ UNCHANGED pure

\* a call that changes nothing durable
Returns(call) ==
    /\ result' = call
    /\ UNCHANGED <<counter, storage, now, issued, deleted, birth, untouched>>
    /\ UNCHANGED pure

\* #[ic_cdk::query] fn get_product
get_product(id) ==
    LET found == _get_product(storage, id) IN
    Returns(Call("get_product", IF IsSome(found) THEN Ok(Unwrap(found))
        ELSE Err(NotFound(id))))

\* #[ic_cdk::update] fn add_product.  overflow_checks is the build's
\* setting for arithmetic overflow: with it current_value + 1 panics at
\* u64::MAX, without it the sum wraps to 0.
add_product(product, overflow_checks) ==
    LET invalid == Validated[product]
        current_value == counter
        \* Cell::set stores the new value and returns the previous one
        id == current_value
        built == NewProduct(id, product, time)
    IN
    IF IsSome(invalid)
    THEN Returns(Call("add_product", Err(Unwrap(invalid))))
    ELSE IF current_value = U64_MAX /\ overflow_checks
    THEN Returns(Call("add_product", Trap))
    ELSE IF InsertPanics(built)
    THEN Returns(Call("add_product", Trap))
    ELSE
        /\ Len(issued) < MaxCreates
        /\ counter' = WrappingIncrement(current_value)
        /\ storage' = do_insert(storage, built)
        /\ result' = Call("add_product", Ok(built))
        /\ issued' = Append(issued, id)
        /\ birth' = Remember(birth, built)
        /\ untouched' = untouched \cup {id}
        /\ UNCHANGED <<now, deleted>>
        /\ UNCHANGED pure

\* an update that looks the id up before it validates the payload
update_product_lookup_first(id, payload) ==
    LET invalid == Validated[payload]
        found == StorageGet(storage, id)
        product == UpdatedProduct(Unwrap(found), payload, time)
    IN
    IF ~IsSome(found)
    THEN Returns(Call("update_product", Err(NotFound(id))))
    ELSE IF IsSome(invalid)
    THEN Returns(Call("update_product", Err(Unwrap(invalid))))
    ELSE IF InsertPanics(product)
    THEN Returns(Call("update_product", Trap))
    ELSE
        /\ storage' = do_insert(storage, product)
        /\ result' = Call("update_product", Ok(product))
        /\ untouched' = untouched \ {id}
        /\ UNCHANGED <<counter, now, issued, deleted, birth>>
        /\ UNCHANGED pure

\* #[ic_cdk::update] fn update_product
update_product(id, payload) ==
    LET invalid == Validated[payload]
        found == StorageGet(storage, id)
        product == UpdatedProduct(Unwrap(found), payload, time)
    IN
    IF IsSome(invalid)
    THEN Returns(Call("update_product", Err(Unwrap(invalid))))
    ELSE IF ~IsSome(found)
    THEN Returns(Call("update_product", Err(NotFound(id))))
    ELSE IF InsertPanics(product)
    THEN Returns(Call("update_product", Trap))
    ELSE
        /\ storage' = do_insert(storage, product)
        /\ result' = Call("update_product", Ok(product))
        /\ untouched' = untouched \ {id}
        /\ UNCHANGED <<counter, now, issued, deleted, birth>>
        /\ UNCHANGED pure

\* #[ic_cdk::update] fn delete_product
delete_product(id) ==
    LET found == StorageGet(storage, id) IN
    IF ~IsSome(found)
    THEN Returns(Call("delete_product", Err(NotFound(id))))
    ELSE
        /\ storage' = StorageRemove(storage, id)
        /\ result' = Call("delete_product", Ok(Unwrap(found)))
        /\ deleted' = deleted \cup {id}
        /\ birth' = Forget(birth, id)
        /\ untouched' = untouched \ {id}
        /\ UNCHANGED <<counter, now, issued>>
        /\ UNCHANGED pure

\* the builds of the crate: with and without arithmetic overflow checks
BuildProfiles == BOOLEAN

Read == \E id \in IdInputs : get_product(id)
\* the build matters only where current_value + 1 overflows
Create ==
    \E p \in Payloads :
        \E oc \in (IF counter = U64_MAX THEN BuildProfiles ELSE {FALSE}) :
            add_product(p, oc)
Update == \E id \in IdInputs, p \in UpdatePayloads : update_product(id, p)
Delete == \E id \in IdInputs : delete_product(id)

Next == Tick \/ Read \/ Create \/ Update \/ Delete

Spec == Init /\ [][Next]_vars

SpecEnd == InitEnd /\ [][Next]_vars

----------------------------------------------------------------------------
(* validate_product_payload applied on its own *)

\* the program's state while a function is applied on its own
Idle ==
    UNCHANGED <<counter, storage, now, result, issued, deleted, birth, untouched>>

\* texts and optional texts offered as payload fields
Texts == {S_a, S_b, S_empty, S_spaces, S_long}
OptTexts == {None, Some(S_empty), Some(S_spaces), Some(S_a)}

\* every payload built from them
ValidateInputs ==
    {Payload(n, o, l, s, c, d) :
        n \in Texts, o \in Texts, l \in Texts, s \in Texts,
        c \in OptTexts, d \in OptTexts}

InitValidate ==
    /\ counter = 0
    /\ storage = EmptyMap
    /\ now = 0
    /\ InitHistory
    /\ input \in {Some(p) : p \in ValidateInputs}
    /\ output = None

\* one call of validate_product_payload(&payload); output holds its Result
Validate ==
    /\ output = None
    /\ output' = Some(validate_product_payload(Unwrap(input)))
    /\ input' = input
    /\ Idle

SpecValidate == InitValidate /\ [][Validate]_vars

----------------------------------------------------------------------------
(* to_bytes and from_bytes applied on their own *)

\* the products handed to the codec, blank and oversized ones among them
CodecInputs ==
    {[id |-> i, name |-> n, origin |-> o, current_location |-> l,
      status |-> s, certification |-> c, timestamp |-> t,
      last_update |-> u, iot_data |-> d] :
        i \in {0, 1, 258, U64_MAX},
        n \in Texts, o \in {S_a, S_b}, l \in {S_a, S_long},
        s \in {S_a, S_spaces},
        c \in OptTexts, t \in {0, 300},
        u \in {None, Some(0), Some(257)},
        d \in {None, Some(S_spaces)}}

InitCodec ==
    /\ counter = 0
    /\ storage = EmptyMap
    /\ now = 0
    /\ InitHistory
    /\ input \in {Some(product) : product \in CodecInputs}
    /\ output = None

\* the product is written with to_bytes and read back with from_bytes
RoundTrip ==
    /\ output = None
    /\ output' = Some(from_bytes(to_bytes(Unwrap(input))))
    /\ input' = input
    /\ Idle

SpecCodec == InitCodec /\ [][RoundTrip]_vars

----------------------------------------------------------------------------
(* Properties *)

\* a text that is empty or holds only whitespace
Blank(s) == \A i \in DOMAIN s : IsWhitespace(s[i].char)

\* a payload with a blank required field
HasBlank(p) ==
    Blank(p.name) \/ Blank(p.origin) \/ Blank(p.current_location) \/ Blank(p.status)

LastOp == result.op
LastKind == result.ret.kind
LastProduct == Unwrap(result.ret.product)

\* C1: the ids returned by successful creates, in the order of the calls,
\* are strictly increasing (so none repeats), the first is 0 and the second
\* is 1, whatever deletes, updates, reads and failed calls come in between;
\* the record a successful create returns carries the id just issued.
C1_IdsStrictlyIncreasing ==
    /\ \A i, j \in DOMAIN issued : i < j => issued[i] < issued[j]
    /\ Len(issued) >= 1 => issued[1] = 0
    /\ Len(issued) >= 2 => issued[2] = 1
    /\ (LastOp = "add_product" /\ LastKind = "Ok")
          => LastProduct.id = issued[Len(issued)]

\* the second create has just returned id 1 after id 0 was deleted
C1_Witness ==
    /\ LastOp = "add_product" /\ LastKind = "Ok"
    /\ LastProduct.id = 1
    /\ 0 \in deleted

\* C2: a create whose payload has a blank name, origin, current_location or
\* status returns InvalidInput and leaves the counter and the map unchanged.
C2_BlankCreateRejected ==
    [][\A p \in Payloads, oc \in BuildProfiles :
          (result'.op = "add_product" /\ HasBlank(p) /\ add_product(p, oc))
              => /\ result'.ret.kind = "InvalidInput"
                 /\ counter' = counter
                 /\ storage' = storage]_vars

\* a create was rejected after one record had been created
C2_Witness ==
    /\ LastOp = "add_product" /\ LastKind = "InvalidInput"
    /\ counter = 1
    /\ DOMAIN storage = {0}

\* C3 as stated: after a successful delete of id, the id is absent after
\* every later step and every later read, update (with any payload) and
\* delete of it fails with NotFound.
C3_DeletedAlwaysNotFound ==
    [][\A id \in deleted :
          /\ id \notin DOMAIN storage'
          /\ (get_product(id) \/ delete_product(id)
                \/ \E p \in UpdatePayloads : update_product(id, p))
                => result'.ret.kind = "NotFound"]_vars

\* C3 amended: after a successful delete of id, the id is absent after every
\* later step; every later read and delete of it fails with NotFound; a
\* later update of it fails with InvalidInput when the payload has a blank
\* required field and with NotFound otherwise.
C3_DeletedStaysAbsent ==
    [][\A id \in deleted :
          /\ id \notin DOMAIN storage'
          /\ (get_product(id) \/ delete_product(id))
                => result'.ret.kind = "NotFound"
          /\ \A p \in UpdatePayloads :
                (result'.op = "update_product" /\ update_product(id, p))
                    => result'.ret.kind =
                          IF HasBlank(p) THEN "InvalidInput" ELSE "NotFound"]_vars

\* an update of the deleted id 0 has failed with NotFound after a later
\* create, whose record is stored
C3_Witness ==
    /\ LastOp = "update_product" /\ LastKind = "NotFound"
    /\ result.ret.id = Some(0)
    /\ 0 \in deleted
    /\ Len(issued) = 2
    /\ 1 \in DOMAIN storage

\* C4: while no update or delete of its id has succeeded, the record that
\* create returned is what the store holds at that id and what a read of
\* that id returns, whatever happened to other ids.
C4_ReadReturnsCreated ==
    [][/\ \A id \in untouched' : StorageGet(storage', id) = Some(birth'[id])
       /\ \A id \in untouched :
             (result'.op = "get_product" /\ get_product(id))
                 => result'.ret = Ok(birth[id])]_vars

\* a read of a record that no update has changed, made after another
\* record was updated
C4_Witness ==
    /\ LastOp = "get_product" /\ LastKind = "Ok"
    /\ LastProduct.id \in untouched
    /\ \E other \in DOMAIN storage :
          other # LastProduct.id /\ IsSome(storage[other].last_update)

\* C5: a successful update returns the record it leaves stored at id; that
\* record has the payload's current_location, status, certification and
\* iot_data, and the id, name, origin and timestamp of the record stored
\* before the call, which are those the record was created with.
C5_UpdateFrame ==
    [][(result'.op = "update_product" /\ result'.ret.kind = "Ok") =>
       \A id \in IdInputs, p \in UpdatePayloads :
          update_product(id, p)
              => LET old == storage[id]
                     new == storage'[id]
                 IN
                 /\ result'.ret.product = Some(new)
                 /\ new.current_location = p.current_location
                 /\ new.status = p.status
                 /\ new.certification = p.certification
                 /\ new.iot_data = p.iot_data
                 /\ new.id = old.id /\ new.id = id
                 /\ new.name = old.name
                 /\ new.origin = old.origin
                 /\ new.timestamp = old.timestamp
                 /\ new.id = birth[id].id
                 /\ new.name = birth[id].name
                 /\ new.origin = birth[id].origin
                 /\ new.timestamp = birth[id].timestamp]_vars

\* a record created with a long name was updated, after an earlier update
\* with a long current_location, with a payload that carries another name;
\* it keeps its name and its creation time
C5_Witness ==
    /\ LastOp = "update_product" /\ LastKind = "Ok"
    /\ LastProduct.name = S_long
    /\ LastProduct.name # P_plain.name
    /\ LastProduct.current_location = P_plain.current_location
    /\ LastProduct.status = P_plain.status
    /\ LastProduct.certification = P_plain.certification
    /\ Unwrap(LastProduct.last_update) > LastProduct.timestamp

\* C6: an update with a payload that passes validation, and a delete, of an
\* id that is not stored return NotFound and leave the map and the counter
\* as they were.
C6_MissingIdNotFound ==
    [][\A id \in IdInputs :
          id \notin DOMAIN storage =>
              /\ \A p \in UpdatePayloads :
                    (/\ result'.op = "update_product"
                     /\ ~HasBlank(p)
                     /\ update_product(id, p))
                        => /\ result'.ret.kind = "NotFound"
                           /\ storage' = storage
                           /\ counter' = counter
              /\ (result'.op = "delete_product" /\ delete_product(id))
                    => /\ result'.ret.kind = "NotFound"
                       /\ storage' = storage
                       /\ counter' = counter]_vars

\* an update of an id that was never created has failed on an empty store
C6_Witness ==
    /\ LastOp = "update_product" /\ LastKind = "NotFound"
    /\ result.ret.id = Some(MissingId)
    /\ storage = EmptyMap
    /\ counter = 0

\* C7: every stored record encodes to at most MAX_SIZE bytes, and a create
\* or update that passes the blank-field checks but whose record would
\* encode to more than MAX_SIZE bytes is rejected with InvalidInput and
\* leaves the counter and the map as they were.
C7_OversizeIsInvalidInput ==
    [][/\ \A id \in DOMAIN storage' : EncodedSize(storage'[id]) <= MAX_SIZE
       /\ \A p \in Payloads, oc \in BuildProfiles :
             (/\ result'.op = "add_product"
              /\ ~HasBlank(p)
              /\ EncodedSize(NewProduct(counter, p, now)) > MAX_SIZE
              /\ add_product(p, oc))
                 => /\ result'.ret.kind = "InvalidInput"
                    /\ counter' = counter
                    /\ storage' = storage
       /\ \A id \in DOMAIN storage, p \in UpdatePayloads :
             (/\ result'.op = "update_product"
              /\ ~HasBlank(p)
              /\ EncodedSize(UpdatedProduct(storage[id], p, now)) > MAX_SIZE
              /\ update_product(id, p))
                 => /\ result'.ret.kind = "InvalidInput"
                    /\ counter' = counter
                    /\ storage' = storage]_vars

\* C8: a create whose payload has no blank required field returns a
\* record, and the store holds that record afterwards.
C8_ValidCreateSucceeds ==
    [][\A p \in Payloads, oc \in BuildProfiles :
          (result'.op = "add_product" /\ ~HasBlank(p) /\ add_product(p, oc))
              => /\ result'.ret.kind = "Ok"
                 /\ LET r == Unwrap(result'.ret.product) IN
                    StorageGet(storage', r.id) = Some(r)]_vars

\* C9: a create that finds the counter at the maximum of its range leaves
\* the map and the counter as they were.
C9_NoWrapAtMax ==
    [][\A p \in Payloads, oc \in BuildProfiles :
          (counter = U64_MAX /\ result'.op = "add_product" /\ add_product(p, oc))
              => /\ storage' = storage
                 /\ counter' = counter]_vars

\* C10: every stored record whose last_update is present has
\* last_update >= timestamp.
C10_LastUpdateNotBeforeCreation ==
    \A id \in DOMAIN storage :
        IsSome(storage[id].last_update)
            => Unwrap(storage[id].last_update) >= storage[id].timestamp

\* a record created after the clock had advanced and updated at the same
\* reading, beside one updated at a reading later than its creation
C10_Witness ==
    \E i, j \in DOMAIN storage :
        /\ i # j
        /\ storage[i].timestamp > 0
        /\ storage[i].last_update = Some(storage[i].timestamp)
        /\ IsSome(storage[j].last_update)
        /\ Unwrap(storage[j].last_update) > storage[j].timestamp

\* C11: validate_product_payload fails, with InvalidInput, exactly when one
\* of name, origin, current_location and status is empty or all whitespace;
\* whatever certification and iot_data hold (absent, empty, blank or not)
\* the outcome is the same.
C11_ValidateIffBlankRequired ==
    IsSome(output) =>
        LET payload == Unwrap(input)
            outcome == Unwrap(output)
        IN
        /\ outcome = Some(InvalidInput) <=> HasBlank(payload)
        /\ outcome = None <=> ~HasBlank(payload)
        /\ \A c, d \in OptTexts :
               validate_product_payload(
                   [payload EXCEPT !.certification = c, !.iot_data = d]) = outcome

\* a payload with blank optional fields and no blank required field passed
C11_Witness ==
    /\ output = Some(None)
    /\ Unwrap(input).certification = Some(S_spaces)
    /\ Unwrap(input).iot_data = Some(S_empty)
    /\ Unwrap(input).name = S_b

\* C12: a successful delete of id returns the record that was stored at id
\* just before the call, and removes that entry and no other: afterwards id
\* is absent and every other entry is as it was.
C12_DeleteReturnsAndRemoves ==
    [][(result'.op = "delete_product" /\ result'.ret.kind = "Ok") =>
       \A id \in IdInputs :
          delete_product(id)
              => /\ id \in DOMAIN storage
                 /\ result'.ret.product = Some(storage[id])
                 /\ DOMAIN storage' = DOMAIN storage \ {id}
                 /\ \A k \in DOMAIN storage' : storage'[k] = storage[k]]_vars

\* a delete returned an updated record and left another record stored
C12_Witness ==
    /\ LastOp = "delete_product" /\ LastKind = "Ok"
    /\ IsSome(LastProduct.last_update)
    /\ LastProduct.id \notin DOMAIN storage
    /\ LastProduct.id \in deleted
    /\ DOMAIN storage # {}

\* C13: a product whose bytes are within MAX_SIZE, written with to_bytes
\* and read back with from_bytes, is the product that was written.
C13_RoundTrip ==
    (IsSome(output) /\ EncodedSize(Unwrap(input)) <= MAX_SIZE)
        => Unwrap(output) = Some(Unwrap(input))

\* a product with a 1000-byte name, a blank status, both optional texts and
\* a last_update, of 1000 bytes and more in all, came back
C13_Witness ==
    /\ IsSome(output) /\ IsSome(Unwrap(output))
    /\ Unwrap(input).name = S_long
    /\ Unwrap(input).status = S_spaces
    /\ Unwrap(input).certification = Some(S_empty)
    /\ Unwrap(input).iot_data = Some(S_spaces)
    /\ Unwrap(input).last_update = Some(257)
    /\ Unwrap(input).id = U64_MAX
    /\ EncodedSize(Unwrap(input)) > LongLen
    /\ EncodedSize(Unwrap(input)) <= MAX_SIZE

\* C14: a successful create returns a record whose id is the counter before
\* the call, whose name, origin, current_location, status, certification and
\* iot_data are the payload's, whose timestamp is the time of the call and
\* whose last_update is absent; afterwards the counter is id + 1 and the
\* store holds the returned record at id.
C14_CreateBuildsRecord ==
    [][(result'.op = "add_product" /\ result'.ret.kind = "Ok") =>
       \A p \in Payloads, overflow_checks \in BuildProfiles :
          add_product(p, overflow_checks)
              => LET product == Unwrap(result'.ret.product) IN
                 /\ product.id = counter
                 /\ product.name = p.name
                 /\ product.origin = p.origin
                 /\ product.current_location = p.current_location
                 /\ product.status = p.status
                 /\ product.certification = p.certification
                 /\ product.iot_data = p.iot_data
                 /\ product.timestamp = now
                 /\ product.last_update = None
                 /\ counter' = product.id + 1
                 /\ product.id \in DOMAIN storage'
                 /\ storage'[product.id] = product]_vars

\* the second create, made after the clock advanced, returned a record with
\* iot_data, which is stored under id 1
C14_Witness ==
    /\ LastOp = "add_product" /\ LastKind = "Ok"
    /\ LastProduct.id = 1
    /\ LastProduct.timestamp = 1
    /\ LastProduct.iot_data = Some(S_a)
    /\ LastProduct.name = S_long
    /\ counter = 2
    /\ storage[1] = LastProduct

\* C15: update validates the payload before it looks the id up: with a
\* blank name, origin, current_location or status (a blank name alone is
\* enough) it returns InvalidInput whether or not the id is stored, and the
\* map and the counter stay as they were.  Stated step by step: no step
\* that leaves another answer of update behind is an update with a blank
\* payload, and a step that leaves InvalidInput of update behind changes
\* neither map nor counter.
C15_UpdateValidatesFirst ==
    [][/\ (result'.op = "update_product" /\ result'.ret.kind # "InvalidInput") =>
             \A id \in IdInputs, p \in UpdatePayloads :
                HasBlank(p) => ~update_product(id, p)
       /\ (result'.op = "update_product" /\ result'.ret.kind = "InvalidInput") =>
             (storage' = storage /\ counter' = counter)]_vars

\* an update was refused as InvalidInput while one issued id was stored and
\* another was not
C15_Witness ==
    /\ LastOp = "update_product" /\ LastKind = "InvalidInput"
    /\ Len(issued) = 2
    /\ issued[1] \in deleted
    /\ issued[2] \in DOMAIN storage

\* C16: last_update is absent in every stored record from its creation
\* until the first successful update of its id; a successful update leaves
\* it present and equal to the time read during that update; an update
\* that fails leaves every stored record, last_update included, as it was.
C16_LastUpdateTracksUpdates ==
    [][/\ \A id \in untouched' : storage'[id].last_update = None
       /\ (result'.op = "update_product" /\ result'.ret.kind = "Ok") =>
             \A id \in IdInputs, p \in UpdatePayloads :
                update_product(id, p) => storage'[id].last_update = Some(now)
       /\ (result'.op = "update_product" /\ result'.ret.kind # "Ok") =>
             storage' = storage]_vars

\* a record created at time 0 got an update at time 1, next to a record
\* that was never updated
C16_Witness ==
    /\ LastOp = "update_product" /\ LastKind = "Ok"
    /\ now = 1
    /\ LastProduct.timestamp = 0
    /\ LastProduct.last_update = Some(1)
    /\ storage[LastProduct.id] = LastProduct
    /\ \E other \in untouched : storage[other].last_update = None

\* C17: in every reachable state every key of the map is below the counter
\* and the record stored under a key has that key as its id.
C17_KeysBelowCounter ==
    \A k \in DOMAIN storage :
        /\ k < counter
        /\ storage[k].id = k

\* two records are stored, one of them updated, after a delete-free run
C17_Witness ==
    /\ DOMAIN storage = {0, 1}
    /\ counter = 2
    /\ IsSome(storage[0].last_update)
    /\ LastOp = "update_product" /\ LastKind = "Ok"

\* C18: the counter changes only in a successful create, and then by
\* exactly one; reads, updates, deletes and failed creates leave it as it
\* was, so it never decreases; a read leaves the map as it was too.  The
\* operation of a step is the one its result names.
C18_CounterFrame ==
    [][/\ counter' # counter =>
             /\ result'.op = "add_product" /\ result'.ret.kind = "Ok"
             /\ counter' = counter + 1
       /\ result'.op = "get_product" => storage' = storage
       /\ counter' >= counter]_vars

\* a delete succeeded after two creates and left the counter at 2
C18_Witness ==
    /\ LastOp = "delete_product" /\ LastKind = "Ok"
    /\ counter = 2
    /\ Len(issued) = 2
    /\ Cardinality(DOMAIN storage) = 1

\* C19: a successful create, update or delete changes the map at the one
\* id it reports (the id of the created record, the id it was called with)
\* and nowhere else: every other id is stored afterwards exactly when it
\* was stored before, with the same record.
C19_OthersUntouched ==
    [][result'.ret.kind = "Ok" =>
       LET OthersKept(id) ==
               \A k \in (DOMAIN storage \cup DOMAIN storage') \ {id} :
                   /\ k \in DOMAIN storage
                   /\ k \in DOMAIN storage'
                   /\ storage'[k] = storage[k]
       IN
       /\ result'.op = "add_product" =>
             OthersKept(Unwrap(result'.ret.product).id)
       /\ result'.op = "update_product" =>
             \A id \in IdInputs, p \in UpdatePayloads :
                update_product(id, p) => OthersKept(id)
       /\ result'.op = "delete_product" =>
             \A id \in IdInputs : delete_product(id) => OthersKept(id)]_vars

\* an update of one record succeeded while another, updated earlier, was
\* stored next to it
C19_Witness ==
    /\ LastOp = "update_product" /\ LastKind = "Ok"
    /\ now = 1
    /\ LastProduct.last_update = Some(1)
    /\ \E other \in DOMAIN storage :
          /\ other # LastProduct.id
          /\ storage[other].last_update = Some(0)

====
